---------------------------- MODULE Spec2Model ----------------------------
(***************************************************************************)
(* A model of the target-assignment, box-decoding, decoder, backbone and   *)
(* sparse U-Net code of MV2DFusion:                                        *)
(*                                                                         *)
(*   HungarianAssigner3D.assign                                            *)
(*       projects/mmdet3d_plugin/core/bbox/assigners/hungarian_assigner_3d *)
(*   NMSFreeCoder / TrackingNMSFreeCoder  decode_single, decode            *)
(*       projects/mmdet3d_plugin/core/bbox/coders/nms_free_coder           *)
(*   MV2DFusionTransformerDecoderLayer  __init__, _forward                 *)
(*   MV2DFusionTransformerDecoder  __init__, forward                       *)
(*       projects/mmdet3d_plugin/models/utils/mv2dfusion_transformer       *)
(*   ConvNeXt  __init__, forward, train, get_layer_depth                   *)
(*       projects/mmdet3d_plugin/models/backbones/convnext                 *)
(*   FSDSparseUNet.reduce_channel                                          *)
(*       projects/fsdv2/sparse_unet                                        *)
(*                                                                         *)
(* Tensors are functions over 0-based index ranges (0 .. n-1), as in the   *)
(* code.  A float is a pair <<kind, value>> with kind "fin", "nan" or      *)
(* "inf" (value +1 / -1 gives the sign of an infinity).  An optional       *)
(* value is a sequence of length 0 (None) or 1.                            *)
(***************************************************************************)
EXTENDS Integers, Sequences, FiniteSets

(***************************************************************************)
(* Bounds of the model.                                                    *)
(***************************************************************************)
\* largest number of predictions (bbox_pred.size(0)) handed to assign
MaxPred == 3
\* largest number of ground-truth boxes (gt_bboxes.size(0)) handed to assign
MaxGt == 2
\* largest number of entries of the cost matrix (num_bboxes * num_gts)
MaxCells == 6
\* largest number of queries of one sample handed to decode_single
MaxQuery == 2
\* largest num_classes of a coder
MaxClasses == 2
\* largest number of (query, class) scores of one sample (num_query * num_classes)
MaxEntries == 4
\* largest max_num of a coder
MaxNum == 3
\* largest number of decoder layers (nb_dec) and of samples (bs) handed to decode
MaxLayers == 2
MaxBatch == 2
\* largest number of samples in all layers handed to decode (nb_dec * bs)
MaxSamples == 4

Min(a, b) == IF a <= b THEN a ELSE b

Injective(f) == \A x, y \in DOMAIN f : f[x] = f[y] => x = y

(***************************************************************************)
(* Floats.                                                                 *)
(***************************************************************************)
Fin(n) == <<"fin", n>>
NaN == <<"nan", 0>>
PosInf == <<"inf", 1>>
NegInf == <<"inf", -1>>

\* IEEE addition, as cls_cost + reg_cost computes it cell by cell
fadd(a, b) ==
    IF a[1] = "nan" \/ b[1] = "nan" THEN NaN
    ELSE IF a[1] = "inf" /\ b[1] = "inf"
         THEN (IF a[2] = b[2] THEN a ELSE NaN)
    ELSE IF a[1] = "inf" THEN a
    ELSE IF b[1] = "inf" THEN b
    ELSE Fin(a[2] + b[2])

\* the replacement values of torch.nan_to_num(cost, nan=100.0, posinf=100.0, neginf=-100.0)
NanValue == 100
PosInfValue == 100
NegInfValue == -100

\* torch.nan_to_num on one cell: the result is a finite number
nan_to_num(a) ==
    IF a[1] = "nan" THEN NanValue
    ELSE IF a[1] = "inf" THEN (IF a[2] > 0 THEN PosInfValue ELSE NegInfValue)
    ELSE a[2]

(***************************************************************************)
(* Inputs of assign.  The match costs self.cls_cost and self.reg_cost are  *)
(* built from the configuration by mmdet's build_match_cost; the model     *)
(* draws their num_bboxes x num_gts outputs from small sets that contain   *)
(* non-finite values (code_weights and with_velo only select what is       *)
(* handed to self.reg_cost).                                               *)
(***************************************************************************)
ClsCostVals == {Fin(0), NegInf}
RegCostVals == {Fin(1), PosInf}
Labels == {0, 1}

Idx(n) == 0 .. (n - 1)

Matrix(P, G, V) == [Idx(P) -> [Idx(G) -> V]]

(***************************************************************************)
(* scipy.optimize.linear_sum_assignment on a P x G matrix of finite costs: *)
(* the library returns (row_ind, col_ind), min(P, G) pairs, row_ind sorted *)
(* ascending, of minimal total cost.  Which optimum is returned when       *)
(* several exist is the library's choice, so the model yields all of them. *)
(***************************************************************************)
RECURSIVE SumCost(_, _, _, _)
SumCost(cost, rows, cols, i) ==
    IF i = 0 THEN 0
    ELSE cost[rows[i]][cols[i]] + SumCost(cost, rows, cols, i - 1)

Ascending(s) == \A i, j \in DOMAIN s : i < j => s[i] < s[j]

Assignments(P, G) ==
    LET k == Min(P, G)
    IN  {rc \in [1 .. k -> Idx(P)] \X [1 .. k -> Idx(G)] :
            Ascending(rc[1]) /\ Injective(rc[2])}

linear_sum_assignment(cost, P, G) ==
    LET k == Min(P, G)
    IN  {rc \in Assignments(P, G) :
            \A other \in Assignments(P, G) :
                SumCost(cost, rc[1], rc[2], k) <= SumCost(cost, other[1], other[2], k)}

(***************************************************************************)
(* State.                                                                  *)
(*   HungarianAssigner3D: stats_one2one_matching, layer_indicator and the  *)
(*   level_<n>_stats attributes (level_stats), the inputs of the call of   *)
(*   assign that last ran (asg_in) and what it gave back (asg_out).        *)
(*   NMSFreeCoder / TrackingNMSFreeCoder: the coder's attributes (coder),  *)
(*   the arguments of the call of decode_single or decode that last ran    *)
(*   (dec_in) and what it gave back (dec_out).                             *)
(***************************************************************************)
VARIABLES stats_one2one_matching, layer_indicator, level_stats, asg_in, asg_out,
          coder, dec_in, dec_out

(***************************************************************************)
(*   MV2DFusionTransformerDecoderLayer: the layer object, or what its      *)
(*   construction raised (declayer), the activation of _forward (lfwd).    *)
(*   MV2DFusionTransformerDecoder: the decoder's attributes (decoder) and  *)
(*   the activation of forward (dfwd).                                     *)
(*   ConvNeXt: the backbone object (convnext) and the result of the last   *)
(*   call of forward or get_layer_depth (cnx_out).                         *)
(*   FSDSparseUNet.reduce_channel: its arguments (unet_in) and what it     *)
(*   gave back (unet_out).                                                 *)
(***************************************************************************)
VARIABLES declayer, lfwd, decoder, dfwd, convnext, cnx_out, unet_in, unet_out

asg_self == <<stats_one2one_matching, layer_indicator, level_stats>>
asg_vars == <<stats_one2one_matching, layer_indicator, level_stats, asg_in, asg_out>>
dec_vars == <<coder, dec_in, dec_out>>
layer_vars == <<declayer, lfwd>>
decoder_vars == <<decoder, dfwd>>
cnx_vars == <<convnext, cnx_out>>
unet_vars == <<unet_in, unet_out>>

vars == <<stats_one2one_matching, layer_indicator, level_stats, asg_in, asg_out,
          coder, dec_in, dec_out,
          declayer, lfwd, decoder, dfwd, convnext, cnx_out, unet_in, unet_out>>

\* no call of assign has run, or its result was taken by the caller
NoAsgIn ==
    [ignore |-> FALSE, num_bboxes |-> 0, num_gts |-> 0,
     cls_cost |-> <<>>, reg_cost |-> <<>>, gt_labels |-> <<>>]
NoAsgOut ==
    [outcome |-> "none", assigned_gt_inds |-> <<>>, assigned_labels |-> <<>>,
     steps |-> <<>>]

(***************************************************************************)
(* HungarianAssigner3D.assign, step by step.                               *)
(***************************************************************************)
\* assert gt_bboxes_ignore is None: TRUE when the assertion passes
\* faulty variant: the assertion is not made
assert_ignore_is_none_off(ignore) == TRUE
assert_ignore_is_none(ignore) == ~ignore

\* 1. assign -1 by default
new_full(n, v) == [p \in Idx(n) |-> v]

\* if num_gts == 0 or num_bboxes == 0
early_return(num_gts, num_bboxes) == num_gts = 0 \/ num_bboxes = 0

\* the AssignResult of the early return: all background when there is no ground truth
\* faulty variant: the early return leaves assigned_gt_inds at -1
empty_assign_unset(num_gts, num_bboxes) ==
    [outcome |-> "ok",
     assigned_gt_inds |-> new_full(num_bboxes, -1),
     assigned_labels |-> new_full(num_bboxes, -1),
     steps |-> <<"default">>]
empty_assign(num_gts, num_bboxes) ==
    [outcome |-> "ok",
     assigned_gt_inds |->
        IF num_gts = 0 THEN new_full(num_bboxes, 0) ELSE new_full(num_bboxes, -1),
     assigned_labels |-> new_full(num_bboxes, -1),
     steps |-> <<"default">>]

\* 2. cost = cls_cost + reg_cost
\* faulty variant: the classification cost is not added
weighted_cost_reg_only(cls_cost, reg_cost, P, G) ==
    [p \in Idx(P) |-> [g \in Idx(G) |-> reg_cost[p][g]]]
weighted_cost(cls_cost, reg_cost, P, G) ==
    [p \in Idx(P) |-> [g \in Idx(G) |-> fadd(cls_cost[p][g], reg_cost[p][g])]]

\* 3. cost = torch.nan_to_num(cost, ...); linear_sum_assignment(cost)
\* faulty variant: every prediction takes its cheapest ground truth
greedy_matching(cost, P, G) ==
    {<<[i \in 1 .. P |-> i - 1],
       [i \in 1 .. P |->
           CHOOSE g \in Idx(G) :
               \A h \in Idx(G) :
                   nan_to_num(cost[i - 1][g]) <= nan_to_num(cost[i - 1][h])]>>}
hungarian_matching(cost, P, G) ==
    linear_sum_assignment([p \in Idx(P) |-> [g \in Idx(G) |-> nan_to_num(cost[p][g])]],
                          P, G)

\* the statistics block: runs only with stats_one2one_matching > 0 and layer_indicator > 0
NoStats == [num_q_matched |-> 0, num_prop_matched |-> 0]

stats_update(num_prop, layer, stats, P, rows) ==
    IF num_prop > 0 /\ layer > 0
    THEN LET num_q == P - num_prop
             num_q_matched == Cardinality({i \in DOMAIN rows : rows[i] < num_q})
             num_prop_matched == Len(rows) - num_q_matched
             old == IF layer \in DOMAIN stats THEN stats[layer] ELSE NoStats
             new == [num_q_matched |-> old.num_q_matched + num_q_matched,
                     num_prop_matched |-> old.num_prop_matched + num_prop_matched]
         IN  [layer_indicator |-> layer + 1,
              level_stats |-> [l \in DOMAIN stats \cup {layer} |->
                                  IF l = layer THEN new ELSE stats[l]]]
    ELSE [layer_indicator |-> layer, level_stats |-> stats]

\* 4. assign backgrounds and foregrounds
Matched(rows, p) == \E i \in DOMAIN rows : rows[i] = p
ColOf(rows, cols, p) == cols[CHOOSE i \in DOMAIN rows : rows[i] = p]

\* faulty variant: assigned_gt_inds is not reset to 0 before the foreground is written
assign_foreground_no_background(P, rows, cols, gt_labels) ==
    [assigned_gt_inds |->
        [p \in Idx(P) |-> IF Matched(rows, p) THEN ColOf(rows, cols, p) + 1 ELSE -1],
     assigned_labels |->
        [p \in Idx(P) |-> IF Matched(rows, p) THEN gt_labels[ColOf(rows, cols, p)] ELSE -1]]
assign_foreground(P, rows, cols, gt_labels) ==
    [assigned_gt_inds |->
        [p \in Idx(P) |-> IF Matched(rows, p) THEN ColOf(rows, cols, p) + 1 ELSE 0],
     assigned_labels |->
        [p \in Idx(P) |-> IF Matched(rows, p) THEN gt_labels[ColOf(rows, cols, p)] ELSE -1]]

(***************************************************************************)
(* assign: the set of what one call can give: the outcome with the         *)
(* AssignResult (out) and the assigner's attributes after the call (self). *)
(***************************************************************************)
assign(num_prop, layer, stats, in) ==
    LET P == in.num_bboxes
        G == in.num_gts
        same == [layer_indicator |-> layer, level_stats |-> stats]
    IN  IF ~assert_ignore_is_none(in.ignore)
        THEN {[out |-> [NoAsgOut EXCEPT !.outcome = "AssertionError"], self |-> same]}
        ELSE IF early_return(G, P)
        THEN {[out |-> empty_assign(G, P), self |-> same]}
        ELSE LET cost == weighted_cost(in.cls_cost, in.reg_cost, P, G)
             IN  {[out |->
                      LET fg == assign_foreground(P, rc[1], rc[2], in.gt_labels)
                      IN  [outcome |-> "ok",
                           assigned_gt_inds |-> fg.assigned_gt_inds,
                           assigned_labels |-> fg.assigned_labels,
                           steps |-> <<"default", "cost", "matching", "foreground">>],
                   self |-> stats_update(num_prop, layer, stats, P, rc[1])] :
                  rc \in hungarian_matching(cost, P, G)}

AsgInputs ==
    UNION {[ignore : BOOLEAN, num_bboxes : {P}, num_gts : {G},
            cls_cost : Matrix(P, G, ClsCostVals),
            reg_cost : Matrix(P, G, RegCostVals),
            gt_labels : [Idx(G) -> Labels]] :
           <<P, G>> \in {pg \in (0 .. MaxPred) \X (0 .. MaxGt) : pg[1] * pg[2] <= MaxCells}}

\* a call of assign, from its first line to its return or its error
Assign ==
    /\ asg_out.outcome = "none"
    /\ \E in \in AsgInputs :
          \E r \in assign(stats_one2one_matching, layer_indicator, level_stats, in) :
              /\ asg_in' = in
              /\ asg_out' = r.out
              /\ layer_indicator' = r.self.layer_indicator
              /\ level_stats' = r.self.level_stats
    /\ UNCHANGED <<stats_one2one_matching, dec_vars, layer_vars, decoder_vars, cnx_vars, unet_vars>>

\* the caller takes the AssignResult (or the error); the assigner is ready for the next call
AssignReturn ==
    /\ asg_out.outcome # "none"
    /\ asg_in' = NoAsgIn
    /\ asg_out' = NoAsgOut
    /\ UNCHANGED <<asg_self, dec_vars, layer_vars, decoder_vars, cnx_vars, unet_vars>>

\* HungarianAssigner3D.__init__
InitAssign ==
    /\ stats_one2one_matching \in {0, 1}
    /\ layer_indicator = 0
    /\ level_stats = <<>>
    /\ asg_in = NoAsgIn
    /\ asg_out = NoAsgOut

NextAssign == Assign \/ AssignReturn

(***************************************************************************)
(* Properties of HungarianAssigner3D.assign.                               *)
(***************************************************************************)
AsgP == asg_in.num_bboxes
AsgG == asg_in.num_gts

\* assign ran past the early return and gave an AssignResult
AsgMatched == asg_out.outcome = "ok" /\ AsgG > 0 /\ AsgP > 0

\* the (prediction, ground truth) pairs the result marks as foreground, 0-based
Foreground ==
    {<<p, asg_out.assigned_gt_inds[p] - 1>> :
        p \in {q \in DOMAIN asg_out.assigned_gt_inds : asg_out.assigned_gt_inds[q] >= 1}}

\* the cost of a pair: classification cost + regression cost, NaN and inf replaced
PairCost(p, g) == nan_to_num(fadd(asg_in.cls_cost[p][g], asg_in.reg_cost[p][g]))

RECURSIVE TotalCost(_)
TotalCost(m) ==
    IF m = {} THEN 0
    ELSE LET e == CHOOSE x \in m : TRUE
         IN  PairCost(e[1], e[2]) + TotalCost(m \ {e})

\* the one-to-one matchings of size min(num_bboxes, num_gts)
OneToOne(m) == \A e, f \in m : (e[1] = f[1] \/ e[2] = f[2]) => e = f

FullMatchings ==
    {m \in SUBSET (Idx(AsgP) \X Idx(AsgG)) :
        OneToOne(m) /\ Cardinality(m) = Min(AsgP, AsgG)}

\* C1: with num_gts > 0 and num_bboxes > 0 the foreground pairs of the result are a
\* one-to-one matching of size min(num_bboxes, num_gts) whose total cost (cls + reg,
\* NaN/inf replaced) is minimal among all such matchings.
C1_OptimalMatching ==
    AsgMatched =>
        /\ Foreground \in FullMatchings
        /\ \A m \in FullMatchings : TotalCost(Foreground) <= TotalCost(m)

\* a 3 x 2 call with a replaced non-finite cost where a costlier matching exists
C1_Witness ==
    /\ AsgMatched
    /\ AsgP = 3 /\ AsgG = 2
    /\ \E p \in Idx(AsgP), g \in Idx(AsgG) :
          fadd(asg_in.cls_cost[p][g], asg_in.reg_cost[p][g]) = NaN
    /\ \E m \in FullMatchings : TotalCost(Foreground) < TotalCost(m)

\* C2: in every result no ground-truth index (a value >= 1) occurs twice in
\* assigned_gt_inds, and every prediction holds one value: 0, -1 or one ground truth.
C2_UniqueMatchedIndices ==
    asg_out.outcome = "ok" =>
        /\ DOMAIN asg_out.assigned_gt_inds = Idx(AsgP)
        /\ \A p, q \in Idx(AsgP) :
              (asg_out.assigned_gt_inds[p] >= 1
                  /\ asg_out.assigned_gt_inds[p] = asg_out.assigned_gt_inds[q]) => p = q

\* two predictions matched, to different ground truths, though one ground truth is
\* the cheapest for both
C2_Witness ==
    /\ AsgMatched
    /\ Cardinality(Foreground) = 2
    /\ \E g \in Idx(AsgG) : \A p \in Idx(AsgP), h \in Idx(AsgG) :
          PairCost(p, g) <= PairCost(p, h)

\* C3: with num_gts > 0 and num_bboxes > 0 every prediction is background (0) or
\* foreground (1 .. num_gts), none is left at -1, exactly min(num_gts, num_bboxes)
\* are foreground, and assigned_labels is the matched ground truth's label for a
\* foreground prediction and -1 for a background one.
C3_BackgroundOrForeground ==
    AsgMatched =>
        /\ \A p \in Idx(AsgP) : asg_out.assigned_gt_inds[p] \in 0 .. AsgG
        /\ Cardinality({p \in Idx(AsgP) : asg_out.assigned_gt_inds[p] >= 1})
              = Min(AsgG, AsgP)
        /\ \A p \in Idx(AsgP) :
              asg_out.assigned_labels[p] =
                  IF asg_out.assigned_gt_inds[p] >= 1
                  THEN asg_in.gt_labels[asg_out.assigned_gt_inds[p] - 1]
                  ELSE -1

\* more predictions than ground truths, with different labels: one prediction is
\* background, two are foreground with different labels
C3_Witness ==
    /\ AsgMatched
    /\ AsgP = 3 /\ AsgG = 2
    /\ asg_in.gt_labels[0] # asg_in.gt_labels[1]
    /\ \E p \in Idx(AsgP) : asg_out.assigned_gt_inds[p] = 0
    /\ \E p \in Idx(AsgP) : asg_out.assigned_labels[p] = 1

\* C4: without ground truth every prediction is background (assigned_gt_inds all 0,
\* assigned_labels all -1); without predictions the assignment is empty; in both
\* cases assign returns after the default step: no cost, no matching.
C4_EmptyAssignment ==
    (asg_out.outcome = "ok" /\ (AsgG = 0 \/ AsgP = 0)) =>
        /\ asg_out.steps = <<"default">>
        /\ DOMAIN asg_out.assigned_gt_inds = Idx(AsgP)
        /\ DOMAIN asg_out.assigned_labels = Idx(AsgP)
        /\ AsgG = 0 => \A p \in Idx(AsgP) :
              asg_out.assigned_gt_inds[p] = 0 /\ asg_out.assigned_labels[p] = -1

\* predictions but no ground truth
C4_Witness ==
    /\ asg_out.outcome = "ok"
    /\ AsgG = 0 /\ AsgP = MaxPred
    /\ asg_out.assigned_gt_inds = [p \in Idx(MaxPred) |-> 0]

\* C5: a call with gt_bboxes_ignore not None ends in the assertion error: no step of
\* assign has run, there is no assignment, and the assigner's attributes are what
\* they were before the call.
C5_IgnoreRejected ==
    [][(asg_out.outcome = "none" /\ asg_out'.outcome # "none" /\ asg_in'.ignore) =>
          /\ asg_out'.outcome = "AssertionError"
          /\ asg_out'.steps = <<>>
          /\ asg_out'.assigned_gt_inds = <<>>
          /\ asg_out'.assigned_labels = <<>>
          /\ asg_self' = asg_self]_vars

\* a call with gt_bboxes_ignore given, predictions and ground truth has failed
C5_Witness ==
    /\ asg_in.ignore
    /\ asg_out.outcome = "AssertionError"
    /\ AsgP > 0 /\ AsgG > 0

(***************************************************************************)
(* NMSFreeCoder and TrackingNMSFreeCoder.                                  *)
(*                                                                         *)
(* A score is a logit; its sigmoid is a fixed-point number in thousandths. *)
(* A box prediction is the tuple (cx, cy, w, l, cz, h) of the normalized   *)
(* format, w, l and h being logarithms.  cls_scores has num_classes        *)
(* columns, and obj_idxes is given whenever tracking_decoding is set       *)
(* (len(obj_idxes) is taken there).                                        *)
(***************************************************************************)
Size(t) == Cardinality(DOMAIN t)

Values(t) == {t[x] : x \in DOMAIN t}

\* torch.sigmoid, in thousandths
sigmoid(x) ==
    IF x = 0 THEN 500
    ELSE IF x = 2 THEN 881
    ELSE IF x = -2 THEN 119
    ELSE IF x > 0 THEN 1000 ELSE 0

\* torch.exp of a logarithmic size
fexp(x) == CASE x = 0 -> 1

\* denormalize_bbox: (cx, cy, w, l, cz, h) to (cx, cy, cz, w, l, h), sizes exponentiated
denormalize_bbox(b) == <<b[1], b[2], b[5], fexp(b[3]), fexp(b[4]), fexp(b[6])>>

\* cls_scores.view(-1): entry f is the score of query f // C, class f % C
view_flat(t, Q, C) == [f \in Idx(Q * C) |-> t[f \div C][f % C]]

\* tensor.topk(k): the indices of k largest entries, largest first; the order of
\* equal entries, and which of them are taken, is the library's choice
topk(v, k) ==
    {ix \in [Idx(k) -> DOMAIN v] :
        /\ Injective(ix)
        /\ \A i, j \in Idx(k) : i < j => v[ix[i]] >= v[ix[j]]
        /\ \A n \in DOMAIN v \ Values(ix) : \A i \in Idx(k) : v[n] <= v[ix[i]]}

\* tensor[mask]: the entries whose mask is set, in order
masked(t, mask) ==
    LET kept == {j \in DOMAIN mask : mask[j]}
    IN  [n \in Idx(Cardinality(kept)) |->
            t[CHOOSE j \in kept : Cardinality({i \in kept : i < j}) = n]]

\* max_num = min(cls_scores.view(-1).size(0), max_num)
\* faulty variant: max_num is clipped to the number of queries, not of scores
topk_size_of_rows(Q, C, max_num) == Min(Q, max_num)
topk_size(Q, C, max_num) == Min(Q * C, max_num)

\* top-k over the flattened scores: the candidates of NMSFreeCoder.decode_single
nms_candidates(self, cls_scores, bbox_preds) ==
    LET Q == Size(cls_scores)
        C == self.num_classes
        flat == view_flat([q \in Idx(Q) |-> [c \in Idx(C) |-> sigmoid(cls_scores[q][c])]],
                          Q, C)
    IN  {[indexs |-> ix,
          scores |-> [i \in DOMAIN ix |-> flat[ix[i]]],
          labels |-> [i \in DOMAIN ix |-> ix[i] % self.num_classes],
          bbox_preds |-> [i \in DOMAIN ix |-> bbox_preds[ix[i] \div self.num_classes]],
          has_obj |-> FALSE, track_scores |-> <<>>, obj_idxes |-> <<>>] :
         ix \in topk(flat, topk_size(Q, C, self.max_num))}

\* cls_scores.max(dim=-1): the largest score of a row and the first index that has it
row_max(row) == CHOOSE m \in Values(row) : \A x \in Values(row) : x <= m
row_argmax(row) == CHOOSE c \in DOMAIN row :
                       row[c] = row_max(row) /\ \A d \in DOMAIN row : row[d] = row_max(row) => c <= d

\* the candidates of TrackingNMSFreeCoder.decode_single
tracking_candidates(self, cls_scores, bbox_preds, has_obj, obj_idxes) ==
    IF ~self.tracking_decoding
    THEN {[c EXCEPT !.has_obj = has_obj,
                    !.obj_idxes = IF has_obj
                                  THEN [i \in DOMAIN c.indexs |->
                                           obj_idxes[c.indexs[i] \div self.num_classes]]
                                  ELSE <<>>,
                    !.track_scores = IF has_obj THEN c.scores ELSE <<>>] :
          c \in nms_candidates(self, cls_scores, bbox_preds)}
    ELSE LET Q == Size(cls_scores)
             C == self.num_classes
             sig == [q \in Idx(Q) |-> [c \in Idx(C) |-> sigmoid(cls_scores[q][c])]]
             track_scores == [q \in Idx(Q) |-> row_max(sig[q])]
             indexs == [q \in Idx(Q) |-> row_argmax(sig[q])]
         IN  {[indexs |-> [i \in DOMAIN bi |-> bi[i] * C + indexs[bi[i]]],
               scores |-> [i \in DOMAIN bi |-> track_scores[bi[i]]],
               labels |-> [i \in DOMAIN bi |-> indexs[bi[i]] % self.num_classes],
               bbox_preds |-> [i \in DOMAIN bi |-> bbox_preds[bi[i]]],
               has_obj |-> TRUE,
               track_scores |-> [i \in DOMAIN bi |-> track_scores[bi[i]]],
               obj_idxes |-> [i \in DOMAIN bi |-> obj_idxes[bi[i]]]] :
              bi \in topk(track_scores, Min(self.max_num, Size(obj_idxes)))}

\* (final_box_preds[..., :3] >= post_center_range[:3]).all(1) and
\* (final_box_preds[..., :3] <= post_center_range[3:]).all(1), for one box
\* faulty variant: the bounds of the range are excluded
center_mask_exclusive(box, range) ==
    \A a \in 1 .. 3 : box[a] > range[a] /\ box[a] < range[a + 3]
center_mask(box, range) ==
    \A a \in 1 .. 3 : box[a] >= range[a] /\ box[a] <= range[a + 3]

\* if self.score_threshold: a threshold that is None or 0 is not applied
\* faulty variant: the threshold mask is never applied
use_score_threshold_never(score_threshold) == FALSE
use_score_threshold(score_threshold) ==
    score_threshold # <<>> /\ score_threshold[1] # 0

NoDict ==
    [bboxes |-> <<>>, scores |-> <<>>, labels |-> <<>>,
     has_obj |-> FALSE, track_scores |-> <<>>, obj_idxes |-> <<>>]

\* post_center_range is None: raise NotImplementedError
\* faulty variant: the unfiltered candidates are returned instead of the error
range_missing_unfiltered(c) ==
    [outcome |-> "ok", indexs |-> c.indexs,
     dict |-> [bboxes |-> [i \in DOMAIN c.indexs |-> denormalize_bbox(c.bbox_preds[i])],
               scores |-> c.scores, labels |-> c.labels,
               has_obj |-> c.has_obj, track_scores |-> c.track_scores,
               obj_idxes |-> c.obj_idxes]]
range_missing(c) ==
    [outcome |-> "NotImplementedError", indexs |-> c.indexs, dict |-> NoDict]

\* denormalization, the score threshold and the centre range, on the candidates c:
\* the second half of both decode_single
filter_candidates(self, c) ==
    IF self.post_center_range # <<>>
    THEN LET final_box_preds == [i \in DOMAIN c.indexs |-> denormalize_bbox(c.bbox_preds[i])]
             mask == [i \in DOMAIN c.indexs |->
                         /\ center_mask(final_box_preds[i], self.post_center_range)
                         /\ use_score_threshold(self.score_threshold)
                               => c.scores[i] >= self.score_threshold[1]]
         IN  [outcome |-> "ok", indexs |-> c.indexs,
              dict |-> [bboxes |-> masked(final_box_preds, mask),
                        scores |-> masked(c.scores, mask),
                        labels |-> masked(c.labels, mask),
                        has_obj |-> c.has_obj,
                        track_scores |-> IF c.has_obj THEN masked(c.track_scores, mask)
                                         ELSE <<>>,
                        obj_idxes |-> IF c.has_obj THEN masked(c.obj_idxes, mask)
                                      ELSE <<>>]]
    ELSE range_missing(c)

\* NMSFreeCoder.decode_single: what one call can give
decode_single(self, cls_scores, bbox_preds) ==
    {filter_candidates(self, c) : c \in nms_candidates(self, cls_scores, bbox_preds)}

\* TrackingNMSFreeCoder.decode_single
tracking_decode_single(self, cls_scores, bbox_preds, has_obj, obj_idxes) ==
    {filter_candidates(self, c) :
        c \in tracking_candidates(self, cls_scores, bbox_preds, has_obj, obj_idxes)}

\* preds_dicts["all_cls_scores"][-1], preds_dicts["all_bbox_preds"][-1]
\* faulty variant: the first decoder layer is decoded
first_layer(all) == all[1]
last_layer(all) == all[Len(all)]

\* the loop of decode over samples 1 .. i: the list so far, or the error that ended it
RECURSIVE decode_loop(_, _, _, _, _, _)
decode_loop(self, cls_scores, bbox_preds, has_obj, obj_idxes, i) ==
    IF i = 0 THEN {[outcome |-> "ok", list |-> <<>>]}
    ELSE UNION {
           IF prev.outcome # "ok" THEN {prev}
           ELSE {IF r.outcome = "ok"
                 THEN [outcome |-> "ok", list |-> Append(prev.list, r.dict)]
                 ELSE [outcome |-> r.outcome, list |-> <<>>] :
                 r \in IF self.class = "NMSFreeCoder"
                       THEN decode_single(self, cls_scores[i], bbox_preds[i])
                       ELSE tracking_decode_single(self, cls_scores[i], bbox_preds[i],
                                                   has_obj,
                                                   IF has_obj THEN obj_idxes[i] ELSE <<>>)} :
           prev \in decode_loop(self, cls_scores, bbox_preds, has_obj, obj_idxes, i - 1)}

\* NMSFreeCoder.decode and TrackingNMSFreeCoder.decode
decode(self, preds_dicts) ==
    LET all_cls_scores == last_layer(preds_dicts.all_cls_scores)
        all_bbox_preds == last_layer(preds_dicts.all_bbox_preds)
        batch_size == Len(all_cls_scores)
    IN  decode_loop(self, all_cls_scores, all_bbox_preds,
                    preds_dicts.has_obj, preds_dicts.obj_idxes, batch_size)

(***************************************************************************)
(* Coders and arguments.                                                   *)
(***************************************************************************)
PostCenterRange == <<-1, -1, 0, 1, 1, 2>>

\* a box on three bounds of the range, one above it in z, one below it in x
Boxes == {<<-1, 1, 0, 0, 0, 0>>, <<0, 0, 0, 0, 3, 0>>, <<-2, 0, 0, 0, 1, 0>>}
RawScores == {0, 2}
ScoreThresholds == {<<>>, <<0>>, <<881>>}

Coders ==
    {c \in [class : {"NMSFreeCoder", "TrackingNMSFreeCoder"},
            post_center_range : {<<>>, PostCenterRange},
            range_is_tensor : {FALSE},
            max_num : 1 .. MaxNum,
            score_threshold : ScoreThresholds,
            num_classes : 1 .. MaxClasses,
            tracking_decoding : BOOLEAN] :
        c.class = "NMSFreeCoder" => ~c.tracking_decoding}

NoPreds == [all_cls_scores |-> <<>>, all_bbox_preds |-> <<>>,
            has_obj |-> FALSE, obj_idxes |-> <<>>]
NoDecIn ==
    [op |-> "none", cls_scores |-> <<>>, bbox_preds |-> <<>>,
     has_obj |-> FALSE, obj_idxes |-> <<>>, preds_dicts |-> NoPreds]
NoDecOut == [outcome |-> "none", indexs |-> <<>>, dict |-> NoDict, list |-> <<>>]

\* the arguments of decode_single for a coder of C classes
SingleInputs(C) ==
    UNION {[cls_scores : [Idx(Q) -> [Idx(C) -> RawScores]],
            bbox_preds : [Idx(Q) -> Boxes]] :
           Q \in {n \in 0 .. MaxQuery : n * C <= MaxEntries}}

ObjIdxes(Q, sample) == [q \in Idx(Q) |-> 10 * sample + q]

\* the samples of a batch: one query each, its scores falling or rising with the class
SampleScores == {<<2, 0, -2>>, <<-2, 0, 2>>}

BatchSamples(C) ==
    {[cls_scores |-> [q \in Idx(1) |-> [c \in Idx(C) |-> x[c + 1]]],
      bbox_preds |-> [q \in Idx(1) |-> <<-1, 1, 0, 0, 0, 0>>]] : x \in SampleScores}

\* the preds_dicts of decode: nb_dec layers of bs samples
BatchInputs(C) ==
    UNION {{[all_cls_scores |-> [l \in 1 .. L |-> [b \in 1 .. B |-> g[l][b].cls_scores]],
             all_bbox_preds |-> [l \in 1 .. L |-> [b \in 1 .. B |-> g[l][b].bbox_preds]],
             has_obj |-> h,
             obj_idxes |-> IF h THEN [b \in 1 .. B |-> ObjIdxes(1, b)] ELSE <<>>] :
            g \in [1 .. L -> [1 .. B -> BatchSamples(C)]], h \in BOOLEAN} :
           <<L, B>> \in {lb \in (1 .. MaxLayers) \X (0 .. MaxBatch) :
                            lb[1] * lb[2] <= MaxSamples}}

\* the coder after a call: post_center_range was made a tensor if it was given
after_call(self) ==
    [self EXCEPT !.range_is_tensor = @ \/ self.post_center_range # <<>>]

\* a call of NMSFreeCoder.decode_single
DecodeSingle ==
    /\ dec_out.outcome = "none"
    /\ coder.class = "NMSFreeCoder"
    /\ \E in \in SingleInputs(coder.num_classes) :
          \E r \in decode_single(coder, in.cls_scores, in.bbox_preds) :
              /\ dec_in' = [NoDecIn EXCEPT !.op = "decode_single",
                                           !.cls_scores = in.cls_scores,
                                           !.bbox_preds = in.bbox_preds]
              /\ dec_out' = [NoDecOut EXCEPT !.outcome = r.outcome,
                                             !.indexs = r.indexs, !.dict = r.dict]
    /\ coder' = after_call(coder)
    /\ UNCHANGED <<asg_self, asg_in, asg_out, layer_vars, decoder_vars, cnx_vars, unet_vars>>

\* a call of TrackingNMSFreeCoder.decode_single
TrackingDecodeSingle ==
    /\ dec_out.outcome = "none"
    /\ coder.class = "TrackingNMSFreeCoder"
    /\ \E in \in SingleInputs(coder.num_classes) :
       \E has_obj \in {h \in BOOLEAN : coder.tracking_decoding => h} :
          LET obj_idxes == IF has_obj THEN ObjIdxes(Size(in.cls_scores), 0) ELSE <<>>
          IN  \E r \in tracking_decode_single(coder, in.cls_scores, in.bbox_preds,
                                              has_obj, obj_idxes) :
                  /\ dec_in' = [NoDecIn EXCEPT !.op = "decode_single",
                                               !.cls_scores = in.cls_scores,
                                               !.bbox_preds = in.bbox_preds,
                                               !.has_obj = has_obj,
                                               !.obj_idxes = obj_idxes]
                  /\ dec_out' = [NoDecOut EXCEPT !.outcome = r.outcome,
                                                 !.indexs = r.indexs, !.dict = r.dict]
    /\ coder' = after_call(coder)
    /\ UNCHANGED <<asg_self, asg_in, asg_out, layer_vars, decoder_vars, cnx_vars, unet_vars>>

\* a call of decode, of either coder
Decode ==
    /\ dec_out.outcome = "none"
    /\ \E preds_dicts \in BatchInputs(coder.num_classes) :
          /\ coder.class = "NMSFreeCoder" => ~preds_dicts.has_obj
          /\ coder.tracking_decoding => preds_dicts.has_obj
          /\ \E r \in decode(coder, preds_dicts) :
                /\ dec_in' = [NoDecIn EXCEPT !.op = "decode", !.preds_dicts = preds_dicts]
                /\ dec_out' = [NoDecOut EXCEPT !.outcome = r.outcome, !.list = r.list]
                /\ coder' = IF Len(last_layer(preds_dicts.all_cls_scores)) > 0
                            THEN after_call(coder) ELSE coder
    /\ UNCHANGED <<asg_self, asg_in, asg_out, layer_vars, decoder_vars, cnx_vars, unet_vars>>

\* the caller takes the predictions (or the error); the coder is ready for the next call
DecodeReturn ==
    /\ dec_out.outcome # "none"
    /\ dec_in' = NoDecIn
    /\ dec_out' = NoDecOut
    /\ UNCHANGED <<coder, asg_self, asg_in, asg_out, layer_vars, decoder_vars, cnx_vars, unet_vars>>

\* NMSFreeCoder.__init__, TrackingNMSFreeCoder.__init__
InitCoder ==
    /\ coder \in Coders
    /\ dec_in = NoDecIn
    /\ dec_out = NoDecOut

NextCoder == DecodeSingle \/ TrackingDecodeSingle \/ Decode \/ DecodeReturn

(***************************************************************************)
(* Properties of NMSFreeCoder and TrackingNMSFreeCoder.                    *)
(***************************************************************************)
\* a call of decode_single has returned its predictions
DecSingleOk == dec_in.op = "decode_single" /\ dec_out.outcome = "ok"

\* the number of (query, class) scores of the call, and the score of entry f
NumEntries == Size(dec_in.cls_scores) * coder.num_classes
EntryScore(f) == sigmoid(dec_in.cls_scores[f \div coder.num_classes][f % coder.num_classes])

\* candidate i of the call: its score, its label, its denormalized box
CandScore(i) == EntryScore(dec_out.indexs[i])
CandLabel(i) == dec_out.indexs[i] % coder.num_classes
CandBox(i) == denormalize_bbox(dec_in.bbox_preds[dec_out.indexs[i] \div coder.num_classes])

\* C6: NMSFreeCoder.decode_single takes exactly min(max_num, number of score entries)
\* distinct candidates, no entry left out has a strictly higher score than a
\* candidate, and at most max_num detections are returned.
C6_TopK ==
    (dec_in.op = "decode_single" /\ coder.class = "NMSFreeCoder") =>
        /\ Size(dec_out.indexs) = Min(coder.max_num, NumEntries)
        /\ Injective(dec_out.indexs)
        /\ \A i \in DOMAIN dec_out.indexs : dec_out.indexs[i] \in Idx(NumEntries)
        /\ \A f \in Idx(NumEntries) \ Values(dec_out.indexs) :
              \A i \in DOMAIN dec_out.indexs : EntryScore(f) <= CandScore(i)
        /\ Size(dec_out.dict.bboxes) <= coder.max_num
        /\ Size(dec_out.dict.scores) <= coder.max_num
        /\ Size(dec_out.dict.labels) <= coder.max_num

\* four entries, max_num = 2: a lower entry and an equal entry were left out, and
\* max_num detections are returned
C6_Witness ==
    /\ DecSingleOk /\ coder.class = "NMSFreeCoder"
    /\ NumEntries = 4 /\ coder.max_num = 2 /\ coder.num_classes = 2
    /\ \E f \in Idx(NumEntries) \ Values(dec_out.indexs) : EntryScore(f) < CandScore(1)
    /\ \E f \in Idx(NumEntries) \ Values(dec_out.indexs) : EntryScore(f) = CandScore(1)
    /\ Size(dec_out.dict.bboxes) = 2

\* the filter the claim states: the centre of the denormalized box within the range,
\* bounds included, and the score at least the threshold when one is set
InRange(box) ==
    /\ coder.post_center_range[1] <= box[1] /\ box[1] <= coder.post_center_range[4]
    /\ coder.post_center_range[2] <= box[2] /\ box[2] <= coder.post_center_range[5]
    /\ coder.post_center_range[3] <= box[3] /\ box[3] <= coder.post_center_range[6]

PassesThreshold(i) ==
    coder.score_threshold # <<>> => CandScore(i) >= coder.score_threshold[1]

Kept == [i \in DOMAIN dec_out.indexs |-> InRange(CandBox(i)) /\ PassesThreshold(i)]

\* C7: the detections decode_single returns are the candidates, and only those, whose
\* denormalized centre lies in post_center_range, bounds included, and that pass the
\* score threshold when one is set; bboxes, scores and labels are aligned and in the
\* candidates' order.
C7_RangeFilter ==
    DecSingleOk =>
        /\ dec_out.dict.bboxes = masked([i \in DOMAIN dec_out.indexs |-> CandBox(i)], Kept)
        /\ dec_out.dict.scores = masked([i \in DOMAIN dec_out.indexs |-> CandScore(i)], Kept)
        /\ dec_out.dict.labels = masked([i \in DOMAIN dec_out.indexs |-> CandLabel(i)], Kept)

\* three candidates: the first is outside the range, the second lies on bounds of the
\* range and is returned, the third is in the range and below the threshold
C7_Witness ==
    /\ DecSingleOk /\ coder.class = "NMSFreeCoder"
    /\ Size(dec_out.indexs) = 3
    /\ ~InRange(CandBox(0))
    /\ InRange(CandBox(1)) /\ CandBox(1)[1] = coder.post_center_range[1] /\ Kept[1]
    /\ InRange(CandBox(2)) /\ ~PassesThreshold(2)
    /\ Size(dec_out.dict.bboxes) = 1

\* C8: with score_threshold not None and post_center_range set, no detection returned
\* by decode_single, of either coder, has a score below score_threshold.
C8_ScoreThreshold ==
    (DecSingleOk /\ coder.score_threshold # <<>> /\ coder.post_center_range # <<>>) =>
        \A i \in DOMAIN dec_out.dict.scores :
            dec_out.dict.scores[i] >= coder.score_threshold[1]

\* a tracking coder dropped a candidate that is in the range and below the threshold
C8_Witness ==
    /\ DecSingleOk /\ coder.class = "TrackingNMSFreeCoder" /\ coder.tracking_decoding
    /\ coder.score_threshold = <<881>>
    /\ \E i \in DOMAIN dec_out.indexs : InRange(CandBox(i)) /\ CandScore(i) < 881
    /\ Size(dec_out.dict.scores) = 1

C10_DecodeLastLayer ==
    (dec_in.op = "decode" /\ coder.class = "NMSFreeCoder" /\ dec_out.outcome = "ok") =>
        LET nb_dec == Len(dec_in.preds_dicts.all_cls_scores)
            cls_scores == dec_in.preds_dicts.all_cls_scores[nb_dec]
            bbox_preds == dec_in.preds_dicts.all_bbox_preds[nb_dec]
        IN  /\ Len(dec_out.list) = Len(cls_scores)
            /\ \A i \in 1 .. Len(cls_scores) :
                  \E r \in decode_single(coder, cls_scores[i], bbox_preds[i]) :
                      r.outcome = "ok" /\ r.dict = dec_out.list[i]

\* two layers of two samples, the layers differ in both samples, the samples of the
\* last layer differ, and so do the two entries returned
C10_Witness ==
    /\ dec_in.op = "decode" /\ coder.class = "NMSFreeCoder" /\ dec_out.outcome = "ok"
    /\ Len(dec_in.preds_dicts.all_cls_scores) = 2
    /\ Len(dec_out.list) = 2
    /\ dec_in.preds_dicts.all_cls_scores[1][1] # dec_in.preds_dicts.all_cls_scores[2][1]
    /\ dec_in.preds_dicts.all_cls_scores[1][2] # dec_in.preds_dicts.all_cls_scores[2][2]
    /\ dec_out.list[1] # dec_out.list[2]
    /\ Size(dec_out.list[1].scores) > 0 /\ Size(dec_out.list[2].scores) > 0

(***************************************************************************)
(* MV2DFusionTransformerDecoderLayer                                       *)
(*     projects/mmdet3d_plugin/models/utils/mv2dfusion_transformer         *)
(*                                                                         *)
(* operation_order is a tuple of operation names; the module lists         *)
(* attentions, ffns and norms are functions over 0 .. n-1.  A module is    *)
(* named by its kind and the index of the configuration it was built from. *)
(***************************************************************************)
\* largest length of an operation_order handed to the constructor
MaxOps == 4

attn_ops == {"self_attn", "cross_attn"}
ops == {"norm", "ffn"} \cup attn_ops

\* the names a caller may write in operation_order: the four operations and an unknown one
OpNames == ops \cup {"dropout"}

\* set(operation_order)
OpSet(operation_order) == {operation_order[i] : i \in DOMAIN operation_order}

\* operation_order.count(x) summed over the names x of S
count(operation_order, S) ==
    Cardinality({i \in DOMAIN operation_order : operation_order[i] \in S})

\* assert set(operation_order) & set(ops) == set(operation_order)
operation_order_ok(operation_order) ==
    OpSet(operation_order) \cap ops = OpSet(operation_order)

\* the position in operation_order of the k-th attention operation (k from 0)
attn_position(operation_order, k) ==
    CHOOSE i \in DOMAIN operation_order :
        /\ operation_order[i] \in attn_ops
        /\ count(SubSeq(operation_order, 1, i - 1), attn_ops) = k

\* the loop that builds self.attentions: attention k is built from attn_cfgs[k]
\* and carries the name of the k-th attention operation
build_attentions(operation_order) ==
    [k \in Idx(count(operation_order, attn_ops)) |->
        [kind |-> "attention", cfg |-> k,
         operation_name |-> operation_order[attn_position(operation_order, k)]]]

\* the loop that builds self.ffns: ffn j is built from ffn_cfgs[j]
build_ffns(num_ffns) ==
    [j \in Idx(num_ffns) |-> [kind |-> "ffn", cfg |-> j, operation_name |-> "ffn"]]

\* the loop that builds self.norms, every one from norm_cfg
build_norms(num_norms) ==
    [j \in Idx(num_norms) |-> [kind |-> "norm", cfg |-> j, operation_name |-> "norm"]]

\* no layer object: the constructor has not run
NoLayer ==
    [outcome |-> "none", operation_order |-> <<>>, num_attn |-> 0, pre_norm |-> FALSE,
     attentions |-> <<>>, ffns |-> <<>>, norms |-> <<>>,
     args |-> [attn_cfgs |-> 0, ffn_cfgs |-> <<>>, operation_order |-> <<>>]]

\* the number of configurations in ffn_cfgs after a dict has been replicated
ffn_cfgs_len(ffn_cfgs, num_ffns) == IF ffn_cfgs = <<>> THEN num_ffns ELSE ffn_cfgs[1]

\* MV2DFusionTransformerDecoderLayer.__init__; attn_cfgs is given by its length,
\* ffn_cfgs is <<>> for a dict and <<n>> for a list of n configurations
layer_init(attn_cfgs, ffn_cfgs, operation_order) ==
    LET args == [attn_cfgs |-> attn_cfgs, ffn_cfgs |-> ffn_cfgs,
                 operation_order |-> operation_order]
        raised(e) == [NoLayer EXCEPT !.outcome = e, !.args = args]
        num_attn == count(operation_order, attn_ops)
        num_ffns == count(operation_order, {"ffn"})
        num_norms == count(operation_order, {"norm"})
    IN  IF ~operation_order_ok(operation_order) THEN raised("AssertionError")
        ELSE IF num_attn # attn_cfgs THEN raised("AssertionError")
        \* operation_order[0] of an empty tuple, self.attentions[0] of an empty list
        ELSE IF operation_order = <<>> \/ num_attn = 0 THEN raised("IndexError")
        ELSE IF ffn_cfgs_len(ffn_cfgs, num_ffns) # num_ffns THEN raised("AssertionError")
        ELSE [outcome |-> "built",
              operation_order |-> operation_order,
              num_attn |-> num_attn,
              pre_norm |-> (operation_order[1] = "norm"),
              attentions |-> build_attentions(operation_order),
              ffns |-> build_ffns(num_ffns),
              norms |-> build_norms(num_norms),
              args |-> args]

\* the lengths of attn_cfgs and the forms of ffn_cfgs a caller passes
AttnCfgLens == {0, 1, 2}
FfnCfgs == {<<>>, <<0>>, <<1>>}

OperationOrders ==
    UNION {[1 .. n -> OpNames] : n \in 0 .. MaxOps}

\* the attn_masks argument of _forward: None, one tensor, or a list whose entry k is
\* None (<<>>) or a tensor of its own (<<k>>)
AttnMasksNone == [kind |-> "None", items |-> <<>>]
AttnMasksTensor == [kind |-> "Tensor", items |-> [k \in Idx(1) |-> <<0>>]]
AttnMasksLists(n) ==
    {[kind |-> "list", items |-> m] :
        m \in {l \in [Idx(n) -> {<<>>} \cup {<<k>> : k \in Idx(n)}] :
                  \A k \in Idx(n) : l[k] \in {<<>>, <<k>>}}}

\* attn_masks = [attn_masks, None], the list MV2DFusionTransformer.forward passes,
\* and lists of that form with one entry less or more than the layer has attentions
TransformerMasks(n) ==
    [kind |-> "list", items |-> [k \in Idx(n) |-> IF k = 0 THEN <<0>> ELSE <<>>]]

AttnMasksArgs(num_attn) ==
    {AttnMasksNone, AttnMasksTensor} \cup AttnMasksLists(num_attn)
        \cup {TransformerMasks(n) : n \in {2, num_attn + 1} \cup ({num_attn - 1} \cap Nat)}

\* no call of _forward is running
NoFwd ==
    [pc |-> "idle", arg |-> AttnMasksNone, attn_masks |-> <<>>, pos |-> 0,
     norm_index |-> 0, attn_index |-> 0, ffn_index |-> 0,
     query |-> 0, identity |-> 0, calls |-> <<>>]

\* faulty variant: a list of any length is taken as it is
attn_masks_len_ok_unchecked(self, arg) == TRUE

\* assert len(attn_masks) == self.num_attn
attn_masks_len_ok(self, arg) == Size(arg.items) = self.num_attn

\* [copy.deepcopy(attn_masks) for _ in range(self.num_attn)]
tensor_masks(self, arg) == [k \in Idx(self.num_attn) |-> arg.items[0]]

\* _forward up to its loop: the indices start at 0, identity is the query (tensor 0),
\* attn_masks becomes a list with one entry per attention
forward_enter(self, arg) ==
    LET f == [NoFwd EXCEPT !.arg = arg]
    IN  IF arg.kind = "None"
        THEN [f EXCEPT !.pc = "loop", !.attn_masks = [k \in Idx(self.num_attn) |-> <<>>]]
        ELSE IF arg.kind = "Tensor"
        THEN [f EXCEPT !.pc = "loop", !.attn_masks = tensor_masks(self, arg)]
        ELSE IF attn_masks_len_ok(self, arg)
        THEN [f EXCEPT !.pc = "loop", !.attn_masks = arg.items]
        ELSE [f EXCEPT !.pc = "AssertionError", !.attn_masks = arg.items]

\* one call of a module: the operation, the module, the query and identity tensors it
\* is given, and the attn_mask keyword when the call passes one
module_call(op, module, f, identity, has_attn_mask, attn_mask) ==
    [op |-> op, module |-> module, query |-> f.query, identity |-> identity,
     has_attn_mask |-> has_attn_mask, attn_mask |-> attn_mask]

\* self.attentions[attn_index](query.transpose(0, 1), query_pos.transpose(0, 1),
\* prev_ref_point, ...): no identity and no attn_mask
cross_attn_call(self, f) ==
    module_call("cross_attn", self.attentions[f.attn_index], f, <<>>, FALSE, <<>>)

\* faulty variant: every attention is taken from self.attentions[0]
self_attn_call_first(self, f) ==
    module_call("self_attn", self.attentions[0], f,
                IF self.pre_norm THEN <<f.identity>> ELSE <<>>,
                TRUE, f.attn_masks[f.attn_index])

\* self.attentions[attn_index](query, temp_key, temp_value,
\* identity if self.pre_norm else None, ..., attn_mask=attn_masks[attn_index], ...)
self_attn_call(self, f) ==
    module_call("self_attn", self.attentions[f.attn_index], f,
                IF self.pre_norm THEN <<f.identity>> ELSE <<>>,
                TRUE, f.attn_masks[f.attn_index])

\* one iteration of "for layer in self.operation_order"; every operation returns a
\* new tensor (query + 1)
forward_step(self, f) ==
    LET op == self.operation_order[f.pos + 1]
        out == [f EXCEPT !.pos = @ + 1, !.query = @ + 1]
    IN  IF op = "self_attn"
        THEN IF f.attn_index \in DOMAIN self.attentions /\ f.attn_index \in DOMAIN f.attn_masks
             THEN [out EXCEPT !.calls = Append(@, self_attn_call(self, f)),
                              !.attn_index = @ + 1, !.identity = f.query + 1]
             ELSE [f EXCEPT !.pc = "IndexError"]
        ELSE IF op = "norm"
        THEN IF f.norm_index \in DOMAIN self.norms
             THEN [out EXCEPT !.calls = Append(@, module_call("norm", self.norms[f.norm_index],
                                                               f, <<>>, FALSE, <<>>)),
                              !.norm_index = @ + 1]
             ELSE [f EXCEPT !.pc = "IndexError"]
        ELSE IF op = "cross_attn"
        THEN IF f.attn_index \in DOMAIN self.attentions
             THEN [out EXCEPT !.calls = Append(@, cross_attn_call(self, f)),
                              !.attn_index = @ + 1, !.identity = f.query + 1]
             ELSE [f EXCEPT !.pc = "IndexError"]
        ELSE IF op = "ffn"
        THEN IF f.ffn_index \in DOMAIN self.ffns
             THEN [out EXCEPT !.calls = Append(@, module_call("ffn", self.ffns[f.ffn_index], f,
                                                               IF self.pre_norm
                                                               THEN <<f.identity>> ELSE <<>>,
                                                               FALSE, <<>>)),
                              !.ffn_index = @ + 1]
             ELSE [f EXCEPT !.pc = "IndexError"]
        ELSE [f EXCEPT !.pc = "NotImplementedError"]

\* MV2DFusionTransformerDecoderLayer(attn_cfgs, ffn_cfgs, operation_order)
LayerInit ==
    /\ declayer.outcome = "none"
    /\ \E attn_cfgs \in AttnCfgLens, ffn_cfgs \in FfnCfgs, operation_order \in OperationOrders :
          declayer' = layer_init(attn_cfgs, ffn_cfgs, operation_order)
    /\ UNCHANGED <<lfwd, asg_vars, dec_vars, decoder_vars, cnx_vars, unet_vars>>

\* forward enters _forward on a built layer: lines 212-230
LayerForwardCall ==
    /\ declayer.outcome = "built"
    /\ lfwd.pc = "idle"
    /\ \E arg \in AttnMasksArgs(declayer.num_attn) : lfwd' = forward_enter(declayer, arg)
    /\ UNCHANGED <<declayer, asg_vars, dec_vars, decoder_vars, cnx_vars, unet_vars>>

\* the next operation of operation_order runs
LayerForwardStep ==
    /\ lfwd.pc = "loop"
    /\ lfwd.pos < Len(declayer.operation_order)
    /\ lfwd' = forward_step(declayer, lfwd)
    /\ UNCHANGED <<declayer, asg_vars, dec_vars, decoder_vars, cnx_vars, unet_vars>>

\* return query
LayerForwardReturn ==
    /\ lfwd.pc = "loop"
    /\ lfwd.pos = Len(declayer.operation_order)
    /\ lfwd' = [lfwd EXCEPT !.pc = "returned"]
    /\ UNCHANGED <<declayer, asg_vars, dec_vars, decoder_vars, cnx_vars, unet_vars>>

\* the caller takes the query (or the error); the layer is ready for the next call
LayerForwardDone ==
    /\ lfwd.pc \notin {"idle", "loop"}
    /\ lfwd' = NoFwd
    /\ UNCHANGED <<declayer, asg_vars, dec_vars, decoder_vars, cnx_vars, unet_vars>>

\* before the constructor runs
InitLayer ==
    /\ declayer = NoLayer
    /\ lfwd = NoFwd

NextLayer ==
    LayerInit \/ LayerForwardCall \/ LayerForwardStep \/ LayerForwardReturn \/ LayerForwardDone

(***************************************************************************)
(* Properties of MV2DFusionTransformerDecoderLayer.                        *)
(***************************************************************************)
\* the operation_order the constructor was given
ArgOrder == declayer.args.operation_order

\* C12: constructing a MV2DFusionTransformerDecoderLayer succeeds only if operation_order
\* contains all four operation types; an operation_order that lacks one of the four, or
\* contains an unknown operation, is rejected with an assertion error.
C12_AllFourRequired ==
    declayer.outcome # "none" =>
        /\ declayer.outcome = "built" => OpSet(ArgOrder) = ops
        /\ OpSet(ArgOrder) # ops => declayer.outcome = "AssertionError"

\* a call of _forward is in its loop or has returned
FwdRunning == lfwd.pc \in {"loop", "returned"}

\* the number of operations of the names S before position i of operation_order:
\* the index the operation at position i finds in its running index
IndexAt(i, S) == count(SubSeq(declayer.operation_order, 1, i - 1), S)

\* the call made for position i of operation_order used the module of its own index
UsesOwnModule(i) ==
    LET c == lfwd.calls[i]
    IN  /\ c.op \in attn_ops => c.module = declayer.attentions[IndexAt(i, attn_ops)]
        /\ c.op = "norm" => c.module = declayer.norms[IndexAt(i, {"norm"})]
        /\ c.op = "ffn" => c.module = declayer.ffns[IndexAt(i, {"ffn"})]

\* the operations run so far are the first ones of operation_order, once each, in order
RanInOrder ==
    /\ Len(lfwd.calls) = lfwd.pos
    /\ lfwd.pos <= Len(declayer.operation_order)
    /\ \A i \in DOMAIN lfwd.calls :
          /\ lfwd.calls[i].op = declayer.operation_order[i]
          /\ lfwd.calls[i].query = i - 1
          /\ UsesOwnModule(i)

\* the running indices stay within the module lists and end at their lengths
IndicesInRange ==
    /\ lfwd.attn_index <= Size(declayer.attentions)
    /\ lfwd.norm_index <= Size(declayer.norms)
    /\ lfwd.ffn_index <= Size(declayer.ffns)
    /\ lfwd.pc = "returned" =>
          /\ lfwd.pos = Len(declayer.operation_order)
          /\ lfwd.attn_index = declayer.num_attn
          /\ lfwd.norm_index = count(declayer.operation_order, {"norm"})
          /\ lfwd.ffn_index = count(declayer.operation_order, {"ffn"})
          /\ lfwd.norm_index = Size(declayer.norms)
          /\ lfwd.ffn_index = Size(declayer.ffns)

RECURSIVE gcd(_, _)
gcd(a, b) == IF b = 0 THEN a ELSE gcd(b, a % b)

\* the fraction n / d in lowest terms (d > 0, n >= 0)
fraction(n, d) == <<n \div gcd(n, d), d \div gcd(n, d)>>

RECURSIVE vsum(_, _)
\* v[1] + ... + v[n]
vsum(v, n) == IF n = 0 THEN 0 ELSE vsum(v, n - 1) + v[n]

\* log2 of a power of two
log2(x) == CHOOSE e \in 0 .. x : 2 ^ e = x

\* dyn_q_probs.log(), for one row of dyn_q_probs
log_probs(w) == [s \in DOMAIN w |-> log2(w[s]) - log2(vsum(w, Len(w)))]

\* the smallest entry of a row
vmin(v) == CHOOSE x \in {v[s] : s \in DOMAIN v} : \A s \in DOMAIN v : x <= v[s]

\* dyn_q_logits.softmax(-1), for one row
softmax(l) == [s \in DOMAIN l |-> 2 ^ (l[s] - vmin(l))]

\* (dyn_q_probs[:, None] @ dyn_q_coords)[:, 0], for one row: the expected coordinate
expected_coord(w, c) ==
    fraction(vsum([s \in DOMAIN w |-> w[s] * c[s]], Len(w)), vsum(w, Len(w)))

\* list.append, a list being a function over 0 .. n-1
list_append(t, x) == [k \in Idx(Size(t) + 1) |-> IF k < Size(t) THEN t[k] ELSE x]

\* the index among the dynamic queries of query q (the position of q in tensor[dyn_q_mask])
dyn_index(dyn_q_mask, q) ==
    Cardinality({p \in DOMAIN dyn_q_mask : dyn_q_mask[p] /\ p < q})

\* the number of dynamic queries
num_dynamic(dyn_q_mask) == Cardinality({p \in DOMAIN dyn_q_mask : dyn_q_mask[p]})

\* new = old.clone(); new[dyn_q_mask] = values
masked_assign(old, dyn_q_mask, values) ==
    [q \in DOMAIN old |->
        IF dyn_q_mask[q] THEN values[dyn_index(dyn_q_mask, q)] ELSE old[q]]

\* a position embedding: the one given for query q, or the one the two position
\* branches compute from the coordinates and the probabilities of a dynamic query
input_pos(q) == [q |-> <<q>>, coords |-> <<>>, probs |-> <<>>]
dyn_q_pos(coords, probs) == [q |-> <<>>, coords |-> coords, probs |-> probs]

\* no decoder object: the constructor has not run
NoDecoder ==
    [outcome |-> "none", num_layers |-> 0, post_norm |-> FALSE,
     return_intermediate |-> FALSE]

\* MV2DFusionTransformerDecoder.__init__; transformerlayers is <<>> for a dict and
\* <<n>> for a list of n configurations, post_norm tells whether post_norm_cfg is given
decoder_init(transformerlayers, num_layers, post_norm, return_intermediate) ==
    IF transformerlayers # <<>> /\ transformerlayers[1] # num_layers
    THEN [NoDecoder EXCEPT !.outcome = "AssertionError"]
    \* self.layers[0] of an empty ModuleList
    ELSE IF num_layers = 0 THEN [NoDecoder EXCEPT !.outcome = "IndexError"]
    ELSE [outcome |-> "built", num_layers |-> num_layers, post_norm |-> post_norm,
          return_intermediate |-> return_intermediate]

\* the arguments of forward
QueryIds == {0, 1}
ProbRows == {<<2, 1, 1>>, <<1, 1, 2>>}
CoordRows == {<<0, 2, 4>>, <<1, 3, 5>>}
Residuals == {<<0, 0, 0>>, <<1, 0, -1>>}

NoForwardArgs ==
    [reference_points |-> <<>>, query_pos |-> <<>>, dyn_q_mask |-> <<>>,
     dyn_q_probs |-> <<>>, dyn_q_coords |-> <<>>]

ForwardArgs ==
    UNION {[reference_points : {[q \in QueryIds |-> <<q, 1>>]},
            query_pos : {[q \in QueryIds |-> input_pos(q)]},
            dyn_q_mask : {dyn_q_mask},
            dyn_q_probs : [Idx(num_dynamic(dyn_q_mask)) -> ProbRows],
            dyn_q_coords : [Idx(num_dynamic(dyn_q_mask)) -> CoordRows]] :
           dyn_q_mask \in [QueryIds -> BOOLEAN]}

\* no call of forward is running
NoDfwd ==
    [pc |-> "idle", in |-> NoForwardArgs, i |-> 0,
     query |-> <<>>, query_pos |-> <<>>, reference_points |-> <<>>,
     dyn_q_logits |-> <<>>,
     intermediate |-> <<>>, intermediate_reference_points |-> <<>>,
     intermediate_dyn_q_logits |-> <<>>,
     calibrations |-> <<>>]

\* faulty variant: forward runs whatever return_intermediate is
assert_return_intermediate_off(self) == TRUE

\* assert self.return_intermediate
assert_return_intermediate(self) == self.return_intermediate

\* forward up to its loop: lines 465-470
decoder_forward_enter(self, in) ==
    IF ~assert_return_intermediate(self)
    THEN [NoDfwd EXCEPT !.pc = "AssertionError", !.in = in]
    ELSE [NoDfwd EXCEPT
             !.pc = "loop", !.in = in,
             !.query_pos = in.query_pos,
             !.reference_points = in.reference_points,
             !.dyn_q_logits = [d \in DOMAIN in.dyn_q_probs |-> log_probs(in.dyn_q_probs[d])],
             !.intermediate_reference_points = list_append(<<>>, in.reference_points)]

\* faulty variant: every layer is given the reference points and positions forward was given
layer_call_initial(f) ==
    [layer |-> f.i, query_pos |-> f.in.query_pos, prev_ref_point |-> f.in.reference_points]

\* layer(query, *args, query_pos=query_pos, prev_ref_point=reference_points, **kwargs):
\* the call of layer i and what it is given
layer_call(f) ==
    [layer |-> f.i, query_pos |-> f.query_pos, prev_ref_point |-> f.reference_points]

\* dyn_q_logits = dyn_q_logits + dyn_q_logits_res
add_residual(dyn_q_logits, dyn_q_logits_res) ==
    [d \in DOMAIN dyn_q_logits |->
        [s \in DOMAIN dyn_q_logits[d] |-> dyn_q_logits[d][s] + dyn_q_logits_res[d][s]]]

\* one iteration of "for i, layer in enumerate(self.layers)", dyn_q_prob_branch[i]
\* giving dyn_q_logits_res
decoder_forward_step(self, f, dyn_q_logits_res) ==
    LET query == Append(f.query, layer_call(f))
        interm_q == [post_norm |-> self.post_norm, query |-> query]
        dyn_q_logits == add_residual(f.dyn_q_logits, dyn_q_logits_res)
        dyn_q_probs == [d \in DOMAIN dyn_q_logits |-> softmax(dyn_q_logits[d])]
        dyn_q_ref == [d \in DOMAIN dyn_q_probs |->
                         expected_coord(dyn_q_probs[d], f.in.dyn_q_coords[d])]
        new_reference_points ==
            masked_assign(f.reference_points, f.in.dyn_q_mask, dyn_q_ref)
        new_query_pos ==
            masked_assign(f.query_pos, f.in.dyn_q_mask,
                          [d \in DOMAIN dyn_q_probs |->
                              dyn_q_pos(f.in.dyn_q_coords[d], dyn_q_probs[d])])
        g == [f EXCEPT
                 !.i = @ + 1,
                 !.query = query,
                 !.dyn_q_logits = dyn_q_logits,
                 !.reference_points = new_reference_points,
                 !.query_pos = new_query_pos,
                 !.calibrations = Append(@, [dyn_q_logits_res |-> dyn_q_logits_res,
                                             reference_points |-> new_reference_points,
                                             query_pos |-> new_query_pos])]
    IN  IF self.return_intermediate
        THEN [g EXCEPT
                 !.intermediate = list_append(@, interm_q),
                 !.intermediate_reference_points = list_append(@, new_reference_points),
                 !.intermediate_dyn_q_logits = list_append(@, dyn_q_logits)]
        ELSE g

\* the three torch.stack of the return statement; torch.stack of an empty list raises
decoder_forward_return(f) ==
    IF f.intermediate = <<>> \/ f.intermediate_dyn_q_logits = <<>>
    THEN [f EXCEPT !.pc = "RuntimeError"]
    ELSE [f EXCEPT !.pc = "returned"]

\* MV2DFusionTransformerDecoder(transformerlayers, num_layers, post_norm_cfg, return_intermediate)
DecoderInit ==
    /\ decoder.outcome = "none"
    /\ \E num_layers \in 0 .. MaxLayers, post_norm \in BOOLEAN, return_intermediate \in BOOLEAN,
          transformerlayers \in {<<>>, <<1>>} :
          decoder' = decoder_init(transformerlayers, num_layers, post_norm, return_intermediate)
    /\ UNCHANGED <<dfwd, asg_vars, dec_vars, layer_vars, cnx_vars, unet_vars>>

\* forward is called on a built decoder: lines 465-470
DecoderForwardCall ==
    /\ decoder.outcome = "built"
    /\ dfwd.pc = "idle"
    /\ \E in \in ForwardArgs : dfwd' = decoder_forward_enter(decoder, in)
    /\ UNCHANGED <<decoder, asg_vars, dec_vars, layer_vars, cnx_vars, unet_vars>>

\* layer i runs and the calibration follows it: lines 471-506
DecoderForwardStep ==
    /\ dfwd.pc = "loop"
    /\ dfwd.i < decoder.num_layers
    /\ \E dyn_q_logits_res \in [DOMAIN dfwd.dyn_q_logits -> Residuals] :
          dfwd' = decoder_forward_step(decoder, dfwd, dyn_q_logits_res)
    /\ UNCHANGED <<decoder, asg_vars, dec_vars, layer_vars, cnx_vars, unet_vars>>

\* the return statement: lines 508-512
DecoderForwardReturn ==
    /\ dfwd.pc = "loop"
    /\ dfwd.i = decoder.num_layers
    /\ dfwd' = decoder_forward_return(dfwd)
    /\ UNCHANGED <<decoder, asg_vars, dec_vars, layer_vars, cnx_vars, unet_vars>>

\* the caller takes the three tensors (or the error); the decoder is ready for the next call
DecoderForwardDone ==
    /\ dfwd.pc \notin {"idle", "loop"}
    /\ dfwd' = NoDfwd
    /\ UNCHANGED <<decoder, asg_vars, dec_vars, layer_vars, cnx_vars, unet_vars>>

\* before the constructor runs
InitDecoder ==
    /\ decoder = NoDecoder
    /\ dfwd = NoDfwd

NextDecoder ==
    \/ DecoderInit
    \/ DecoderForwardCall
    \/ DecoderForwardStep
    \/ DecoderForwardReturn
    \/ DecoderForwardDone

(***************************************************************************)
(* Properties of MV2DFusionTransformerDecoder.                             *)
(***************************************************************************)
\* the sum of two tensors of shape [num_dynamic, sample_size]
RowsPlus(a, b) == [d \in DOMAIN a |-> [s \in DOMAIN a[d] |-> a[d][s] + b[d][s]]]

\* the logits forward starts from
InitialLogits == [d \in DOMAIN dfwd.in.dyn_q_probs |-> log_probs(dfwd.in.dyn_q_probs[d])]

\* the three tensors forward returns
OutQueries == dfwd.intermediate
OutRefPoints == dfwd.intermediate_reference_points
OutDynLogits == dfwd.intermediate_dyn_q_logits

\* C11: MV2DFusionTransformerDecoder.forward requires return_intermediate (assertion
\* failure otherwise) and, for a decoder of num_layers layers, returns num_layers
\* intermediate queries, num_layers + 1 reference-point sets of which the first is the
\* reference_points passed in, and num_layers dynamic-query logit sets, each in layer order.
C11_IntermediateOutputs ==
    /\ (dfwd.pc # "idle" /\ ~decoder.return_intermediate) =>
          /\ dfwd.pc = "AssertionError"
          /\ dfwd.i = 0
          /\ OutQueries = <<>> /\ OutRefPoints = <<>> /\ OutDynLogits = <<>>
    /\ dfwd.pc = "AssertionError" => ~decoder.return_intermediate
    /\ dfwd.pc \notin {"idle", "loop", "AssertionError"} =>
          /\ dfwd.pc = "returned"
          /\ Size(OutQueries) = decoder.num_layers
          /\ Size(OutRefPoints) = decoder.num_layers + 1
          /\ Size(OutDynLogits) = decoder.num_layers
          /\ OutRefPoints[0] = dfwd.in.reference_points
          /\ \A i \in Idx(decoder.num_layers) :
                \* the query as layer i returned it (after layers 0 .. i), post-normed
                /\ OutQueries[i].post_norm = decoder.post_norm
                /\ Len(OutQueries[i].query) = i + 1
                /\ \A j \in 0 .. i : OutQueries[i].query[j + 1].layer = j
                \* the reference points and the logits of the calibration after layer i
                /\ OutRefPoints[i + 1] = dfwd.calibrations[i + 1].reference_points
                /\ OutDynLogits[i] =
                      RowsPlus(IF i = 0 THEN InitialLogits ELSE OutDynLogits[i - 1],
                               dfwd.calibrations[i + 1].dyn_q_logits_res)

\* a decoder of two layers has returned, the reference point of a dynamic query having
\* moved at each layer
C11_Witness ==
    /\ dfwd.pc = "returned"
    /\ decoder.num_layers = 2
    /\ OutRefPoints[0] # OutRefPoints[1]
    /\ OutRefPoints[1] # OutRefPoints[2]

RECURSIVE ResidualSum(_)
\* the sum of the residuals of layers 0 .. i
ResidualSum(i) ==
    IF i = 0 THEN dfwd.calibrations[1].dyn_q_logits_res
    ELSE RowsPlus(ResidualSum(i - 1), dfwd.calibrations[i + 1].dyn_q_logits_res)

\* what layer i was given: its record in the query
Received(i) == dfwd.query[i + 1]

\* C17: MV2DFusionTransformerDecoder.forward refines iteratively: layer 0 receives the
\* initial reference points and query positions, every layer i > 0 receives the reference
\* points and query positions produced by the calibration that followed layer i - 1; the
\* reference points recorded at output index i + 1 are the ones layer i + 1 receives, and
\* the dynamic logits recorded after layer i are the log of the initial probabilities plus
\* the sum of the residuals of layers 0 .. i.
C17_IterativeRefinement ==
    dfwd.pc \in {"loop", "returned"} =>
        /\ Len(dfwd.query) = dfwd.i
        /\ Len(dfwd.calibrations) = dfwd.i
        /\ \A i \in Idx(dfwd.i) :
              /\ Received(i).layer = i
              /\ i = 0 =>
                    /\ Received(i).prev_ref_point = dfwd.in.reference_points
                    /\ Received(i).query_pos = dfwd.in.query_pos
              /\ i > 0 =>
                    /\ Received(i).prev_ref_point = dfwd.calibrations[i].reference_points
                    /\ Received(i).query_pos = dfwd.calibrations[i].query_pos
              /\ i + 1 < dfwd.i => Received(i + 1).prev_ref_point = OutRefPoints[i + 1]
              /\ OutDynLogits[i] = RowsPlus(InitialLogits, ResidualSum(i))
              \* the calibration: the expected coordinate under softmax of the logits
              /\ \A q \in QueryIds :
                    OutRefPoints[i + 1][q] =
                        IF dfwd.in.dyn_q_mask[q]
                        THEN LET d == dyn_index(dfwd.in.dyn_q_mask, q)
                             IN  expected_coord(softmax(OutDynLogits[i][d]),
                                                dfwd.in.dyn_q_coords[d])
                        ELSE dfwd.in.reference_points[q]

\* the second layer has run on reference points and positions that differ from the
\* initial ones, after two non-zero residuals
C17_Witness ==
    /\ dfwd.pc = "loop"
    /\ dfwd.i = 2
    /\ Received(1).prev_ref_point # dfwd.in.reference_points
    /\ Received(1).query_pos # dfwd.in.query_pos
    /\ \E d \in DOMAIN InitialLogits :
          /\ dfwd.calibrations[1].dyn_q_logits_res[d] = <<1, 0, -1>>
          /\ dfwd.calibrations[2].dyn_q_logits_res[d] = <<1, 0, -1>>
          /\ OutDynLogits[1][d] # OutDynLogits[0][d]

(***************************************************************************)
(* ConvNeXt                                                                *)
(*     projects/mmdet3d_plugin/models/backbones/convnext                   *)
(*                                                                         *)
(* depths, channels and out_indices are tuples; the module lists           *)
(* downsample_layers and stages are given by the training flag and the     *)
(* requires_grad flag of each of their entries, functions over 0 .. n-1.   *)
(***************************************************************************)
arch_settings ==
    [atto |-> [depths |-> <<2, 2, 6, 2>>, channels |-> <<40, 80, 160, 320>>],
     femto |-> [depths |-> <<2, 2, 6, 2>>, channels |-> <<48, 96, 192, 384>>],
     pico |-> [depths |-> <<2, 2, 6, 2>>, channels |-> <<64, 128, 256, 512>>],
     nano |-> [depths |-> <<2, 2, 8, 2>>, channels |-> <<80, 160, 320, 640>>],
     tiny |-> [depths |-> <<3, 3, 9, 3>>, channels |-> <<96, 192, 384, 768>>],
     small |-> [depths |-> <<3, 3, 27, 3>>, channels |-> <<96, 192, 384, 768>>],
     base |-> [depths |-> <<3, 3, 27, 3>>, channels |-> <<128, 256, 512, 1024>>],
     large |-> [depths |-> <<3, 3, 27, 3>>, channels |-> <<192, 384, 768, 1536>>],
     xlarge |-> [depths |-> <<3, 3, 27, 3>>, channels |-> <<256, 512, 1024, 2048>>],
     huge |-> [depths |-> <<3, 3, 27, 3>>, channels |-> <<352, 704, 1408, 2816>>]]

\* the arch argument: a string (name = <<s>>) or a dict (dict = <<d>>), the keys
\* "depths" and "channels" of a dict being present (<<tuple>>) or not (<<>>)
ArchName(s) == [name |-> <<s>>, dict |-> <<>>]
ArchDict(depths, channels) ==
    [name |-> <<>>, dict |-> <<[depths |-> depths, channels |-> channels]>>]

ArchArgs ==
    {ArchName(s) : s \in DOMAIN arch_settings \cup {"giant"}}
        \cup {ArchDict(<< <<1, 1, 1>> >>, << <<8, 16, 32>> >>),
              ArchDict(<< <<1, 1, 1, 1, 1>> >>, << <<8, 16, 32, 64, 128>> >>),
              ArchDict(<< <<3, 3, 34, 3>> >>, << <<96, 192, 384, 768>> >>),
              ArchDict(<< <<2, 2>> >>, << <<8>> >>),
              ArchDict(<< <<2, 2>> >>, <<>>)}

\* the out_indices argument, an int k being the list [k], and the frozen_stages argument
OutIndicesArgs == {<<-1>>, <<-2>>, <<-5>>, <<0, 1, 2, 3>>, <<1, -1>>}
FrozenStagesArgs == {-1, 0, 1, 2, 5}

\* no backbone object: the constructor has not run
NoConvNeXt ==
    [outcome |-> "none",
     args |-> [arch |-> ArchName("tiny"), out_indices |-> <<-1>>, frozen_stages |-> 0,
               gap_before_final_norm |-> TRUE],
     depths |-> <<>>, channels |-> <<>>, num_stages |-> 0, out_indices |-> <<>>,
     frozen_stages |-> 0, gap_before_final_norm |-> TRUE, norms |-> {},
     training |-> FALSE,
     downsample_training |-> <<>>, stage_training |-> <<>>, norm_training |-> <<>>,
     downsample_requires_grad |-> <<>>, stage_requires_grad |-> <<>>,
     last_mode |-> <<>>]

\* out_indices[i] = 4 + index
from_last(index) == 4 + index

\* the loop over out_indices: negative entries are counted back from the end
normalize_out_indices(out_indices) ==
    [i \in DOMAIN out_indices |->
        IF out_indices[i] < 0 THEN from_last(out_indices[i])
        ELSE out_indices[i]]

\* ConvNeXt._freeze_stages, for frozen_stages <= num_stages
freeze_stages(self) ==
    [self EXCEPT
        !.downsample_training =
            [i \in DOMAIN @ |-> IF i < self.frozen_stages THEN FALSE ELSE @[i]],
        !.stage_training =
            [i \in DOMAIN @ |-> IF i < self.frozen_stages THEN FALSE ELSE @[i]],
        !.downsample_requires_grad =
            [i \in DOMAIN @ |-> IF i < self.frozen_stages THEN FALSE ELSE @[i]],
        !.stage_requires_grad =
            [i \in DOMAIN @ |-> IF i < self.frozen_stages THEN FALSE ELSE @[i]]]

\* torch.nn.Module.train(mode): the module and all its submodules take the mode
module_train(self, mode) ==
    [self EXCEPT
        !.training = mode,
        !.downsample_training = [i \in DOMAIN @ |-> mode],
        !.stage_training = [i \in DOMAIN @ |-> mode],
        !.norm_training = [i \in DOMAIN @ |-> mode],
        !.last_mode = <<mode>>]

\* faulty variant: train without freezing again
train_no_freeze(self, mode) == module_train(self, mode)

\* ConvNeXt.train
train(self, mode) == freeze_stages(module_train(self, mode))

\* ConvNeXt.__init__
convnext_init(arch, out_indices, frozen_stages, gap_before_final_norm) ==
    LET args == [arch |-> arch, out_indices |-> out_indices,
                 frozen_stages |-> frozen_stages,
                 gap_before_final_norm |-> gap_before_final_norm]
        raised(e) == [NoConvNeXt EXCEPT !.outcome = e, !.args = args]
        known == arch.name # <<>> /\ arch.name[1] \in DOMAIN arch_settings
        has_keys == arch.dict # <<>> /\ arch.dict[1].depths # <<>>
                        /\ arch.dict[1].channels # <<>>
        depths == IF arch.name # <<>> THEN arch_settings[arch.name[1]].depths
                  ELSE arch.dict[1].depths[1]
        channels == IF arch.name # <<>> THEN arch_settings[arch.name[1]].channels
                    ELSE arch.dict[1].channels[1]
        num_stages == Len(depths)
        indices == normalize_out_indices(out_indices)
        norms == {i \in Idx(num_stages) : \E j \in DOMAIN indices : indices[j] = i}
    IN  IF arch.name # <<>> /\ ~known THEN raised("AssertionError")
        ELSE IF arch.dict # <<>> /\ ~has_keys THEN raised("AssertionError")
        ELSE IF Len(depths) # Len(channels) THEN raised("AssertionError")
        ELSE IF \E i \in DOMAIN indices : indices[i] < 0 THEN raised("AssertionError")
        \* self.channels[0] of an empty list; self.downsample_layers[i] in _freeze_stages
        ELSE IF num_stages = 0 \/ frozen_stages > num_stages THEN raised("IndexError")
        ELSE freeze_stages(
                 [outcome |-> "built",
                  args |-> args,
                  depths |-> depths, channels |-> channels, num_stages |-> num_stages,
                  out_indices |-> indices,
                  frozen_stages |-> frozen_stages,
                  gap_before_final_norm |-> gap_before_final_norm,
                  norms |-> norms,
                  training |-> TRUE,
                  downsample_training |-> [i \in Idx(num_stages) |-> TRUE],
                  stage_training |-> [i \in Idx(num_stages) |-> TRUE],
                  norm_training |-> [i \in norms |-> TRUE],
                  downsample_requires_grad |-> [i \in Idx(num_stages) |-> TRUE],
                  stage_requires_grad |-> [i \in Idx(num_stages) |-> TRUE],
                  last_mode |-> <<>>])

\* ConvNeXt.forward: the outputs in stage order, each the output of a stage after its
\* norm layer (of the globally averaged map when gap_before_final_norm)
convnext_forward(self) ==
    LET picked == {i \in Idx(self.num_stages) :
                      \E j \in DOMAIN self.out_indices : self.out_indices[j] = i}
        nth(n) == CHOOSE i \in picked : Cardinality({h \in picked : h < i}) = n
    IN  [n \in Idx(Cardinality(picked)) |->
            [stage |-> nth(n), norm |-> nth(n), gap |-> self.gap_before_final_norm]]

\* a parameter name: "downsample_layers.<stage_id>...", "stages.<stage_id>.<block_id>...",
\* "norm<stage_id>..." after the prefix, or a name that does not start with the prefix
ParamName(has_prefix, kind, stage_id, block_id) ==
    [has_prefix |-> has_prefix, kind |-> kind, stage_id |-> stage_id, block_id |-> block_id]

\* the names of the parameters of a backbone, and one of a later module (a head)
ParamNames(self) ==
    {ParamName(TRUE, "downsample_layers", s, 0) : s \in Idx(self.num_stages)}
        \cup UNION {{ParamName(TRUE, "stages", s, b) : b \in Idx(self.depths[s + 1])} :
                       s \in Idx(self.num_stages)}
        \cup {ParamName(TRUE, "norm", s, 0) : s \in self.norms}
        \cup {ParamName(FALSE, "head", 0, 0)}

\* max_layer_id = 12 if self.depths[-2] > 9 else 6
max_layer_id(self) == IF self.depths[Len(self.depths) - 1] > 9 THEN 12 ELSE 6

\* ConvNeXt.get_layer_depth: <<layer_id, num_layers>>
get_layer_depth(self, param_name) ==
    LET stage_id == param_name.stage_id
        block_id == param_name.block_id
        layer_id ==
            IF ~param_name.has_prefix THEN max_layer_id(self) + 1
            ELSE IF param_name.kind = "downsample_layers"
            THEN IF stage_id = 0 THEN 0
                 ELSE IF stage_id = 1 \/ stage_id = 2 THEN stage_id + 1
                 ELSE max_layer_id(self)
            ELSE IF param_name.kind = "stages"
            THEN IF stage_id = 0 \/ stage_id = 1 THEN stage_id + 1
                 ELSE IF stage_id = 2 THEN 3 + block_id \div 3
                 ELSE max_layer_id(self)
            ELSE max_layer_id(self) + 1
    IN  <<layer_id, max_layer_id(self) + 2>>

\* no call of forward or get_layer_depth has run, or its result was taken
NoCnxOut == [op |-> "none", param_name |-> ParamName(FALSE, "head", 0, 0),
             outs |-> <<>>, depth |-> <<>>]

\* ConvNeXt(arch, out_indices, frozen_stages, gap_before_final_norm)
ConvNeXtInit ==
    /\ convnext.outcome = "none"
    /\ \E arch \in ArchArgs, out_indices \in OutIndicesArgs,
          frozen_stages \in FrozenStagesArgs, gap_before_final_norm \in BOOLEAN :
          convnext' = convnext_init(arch, out_indices, frozen_stages, gap_before_final_norm)
    /\ UNCHANGED <<cnx_out, asg_vars, dec_vars, layer_vars, decoder_vars, unet_vars>>

\* train(True) or train(False)
ConvNeXtTrain ==
    /\ convnext.outcome = "built"
    /\ cnx_out.op = "none"
    /\ \E mode \in BOOLEAN : convnext' = train(convnext, mode)
    /\ UNCHANGED <<cnx_out, asg_vars, dec_vars, layer_vars, decoder_vars, unet_vars>>

\* forward(x)
ConvNeXtForward ==
    /\ convnext.outcome = "built"
    /\ cnx_out.op = "none"
    /\ cnx_out' = [NoCnxOut EXCEPT !.op = "forward", !.outs = convnext_forward(convnext)]
    /\ UNCHANGED <<convnext, asg_vars, dec_vars, layer_vars, decoder_vars, unet_vars>>

\* get_layer_depth(param_name, prefix)
ConvNeXtGetLayerDepth ==
    /\ convnext.outcome = "built"
    /\ cnx_out.op = "none"
    /\ \E param_name \in ParamNames(convnext) :
          cnx_out' = [NoCnxOut EXCEPT !.op = "get_layer_depth", !.param_name = param_name,
                                      !.depth = get_layer_depth(convnext, param_name)]
    /\ UNCHANGED <<convnext, asg_vars, dec_vars, layer_vars, decoder_vars, unet_vars>>

\* the caller takes the result
ConvNeXtReturn ==
    /\ cnx_out.op # "none"
    /\ cnx_out' = NoCnxOut
    /\ UNCHANGED <<convnext, asg_vars, dec_vars, layer_vars, decoder_vars, unet_vars>>

\* before the constructor runs
InitConvNeXt ==
    /\ convnext = NoConvNeXt
    /\ cnx_out = NoCnxOut

NextConvNeXt ==
    \/ ConvNeXtInit
    \/ ConvNeXtTrain
    \/ ConvNeXtForward
    \/ ConvNeXtGetLayerDepth
    \/ ConvNeXtReturn

(***************************************************************************)
(* Properties of ConvNeXt.                                                 *)
(***************************************************************************)
\* the constructor built the backbone
Built == convnext.outcome = "built"

\* C13: an out_indices entry of -1 means the last stage: for every architecture (a named
\* one or a dict with any number of stages) a negative index k selects stage
\* num_stages + k, whose normalized output forward returns.
C13_NegativeIndexFromLast ==
    (Built /\ cnx_out.op = "forward") =>
        \A j \in DOMAIN convnext.args.out_indices :
            LET k == convnext.args.out_indices[j]
            IN  (k < 0 /\ convnext.num_stages + k >= 0) =>
                    \E n \in DOMAIN cnx_out.outs :
                        /\ cnx_out.outs[n].stage = convnext.num_stages + k
                        /\ cnx_out.outs[n].norm = convnext.num_stages + k

\* C14: ConvNeXt keeps its frozen stages frozen: after construction and after any sequence
\* of train(True) / train(False) calls, the downsample layer and the stage of every index
\* i < frozen_stages are in eval mode with requires_grad False, every stage of index
\* >= frozen_stages follows the mode of the last train call, and with frozen_stages = 0
\* no parameter is frozen.
C14_FrozenStagesStayFrozen ==
    Built =>
        /\ \A i \in Idx(convnext.num_stages) :
              /\ i < convnext.frozen_stages =>
                    /\ ~convnext.downsample_training[i]
                    /\ ~convnext.stage_training[i]
                    /\ ~convnext.downsample_requires_grad[i]
                    /\ ~convnext.stage_requires_grad[i]
              /\ i >= convnext.frozen_stages =>
                    /\ convnext.downsample_training[i] = convnext.training
                    /\ convnext.stage_training[i] = convnext.training
                    /\ convnext.last_mode # <<>> =>
                          convnext.stage_training[i] = convnext.last_mode[1]
        /\ convnext.frozen_stages = 0 =>
              \A i \in Idx(convnext.num_stages) :
                  /\ convnext.downsample_requires_grad[i]
                  /\ convnext.stage_requires_grad[i]

\* a backbone with two frozen stages after train(True): stages 0 and 1 are in eval mode,
\* stages 2 and 3 in training mode
C14_Witness ==
    /\ Built
    /\ convnext.frozen_stages = 2
    /\ convnext.num_stages = 4
    /\ convnext.last_mode = <<TRUE>>
    /\ ~convnext.stage_training[1]
    /\ convnext.stage_training[2]

\* parameter q lies deeper than parameter p: in a later stage, or in a later block of
\* the same stage
Deeper(p, q) ==
    /\ p.has_prefix /\ q.has_prefix
    /\ p.kind \in {"downsample_layers", "stages"}
    /\ q.kind \in {"downsample_layers", "stages"}
    /\ \/ p.stage_id < q.stage_id
       \/ /\ p.stage_id = q.stage_id
          /\ p.kind = "stages" /\ q.kind = "stages"
          /\ p.block_id < q.block_id

\* C15: for every architecture and every parameter name, get_layer_depth returns
\* (layer_id, num_layers) with 0 <= layer_id < num_layers, and layer_id never decreases
\* when the parameter lies deeper in the network.
C15_LayerDepthInRange ==
    (Built /\ cnx_out.op = "get_layer_depth") =>
        /\ 0 <= cnx_out.depth[1]
        /\ cnx_out.depth[1] < cnx_out.depth[2]
        /\ \A p \in ParamNames(convnext) :
              Deeper(p, cnx_out.param_name) =>
                  get_layer_depth(convnext, p)[1] <= cnx_out.depth[1]

(***************************************************************************)
(* FSDSparseUNet.reduce_channel                                            *)
(*     projects/fsdv2/sparse_unet                                          *)
(*                                                                         *)
(* x.features is a matrix of n rows and in_channels columns, a function    *)
(* over 0 .. n-1 of functions over 0 .. in_channels-1.                     *)
(***************************************************************************)
\* largest number of rows (active voxels) and of channels of x.features
MaxRows == 2
MaxChannels == 4
\* largest number of entries of x.features (n * in_channels)
MaxFeatures == 6

\* the values of the entries of x.features
FeatureVals == {-1, 1, 2}

RECURSIVE range_sum(_, _, _)
\* row[first] + ... + row[first + k - 1]
range_sum(row, first, k) ==
    IF k = 0 THEN 0 ELSE row[first + k - 1] + range_sum(row, first, k - 1)

\* faulty variant: channel j sums the inputs j, j + out_channels, j + 2 * out_channels, ...
view_sum_strided(features, n, in_channels, out_channels) ==
    [r \in Idx(n) |->
        [j \in Idx(out_channels) |->
            range_sum([t \in Idx(in_channels \div out_channels) |->
                          features[r][j + t * out_channels]],
                      0, in_channels \div out_channels)]]

\* features.view(n, out_channels, -1).sum(dim=2): the view splits each row into
\* out_channels runs of in_channels / out_channels consecutive entries
view_sum(features, n, in_channels, out_channels) ==
    [r \in Idx(n) |->
        [j \in Idx(out_channels) |->
            range_sum(features[r], j * (in_channels \div out_channels),
                      in_channels \div out_channels)]]

\* no call of reduce_channel has run, or its result was taken by the caller
NoUNetIn == [n |-> 0, in_channels |-> 0, features |-> <<>>, out_channels |-> 1]
NoUNetOut == [outcome |-> "none", features |-> <<>>]

\* FSDSparseUNet.reduce_channel: the results a call can have.  For a tensor without
\* rows torch.Tensor.view cannot infer the dimension written -1 and raises; the empty
\* result is kept as a second outcome of that call.
reduce_channel(x, out_channels) ==
    LET features == x.features
        n == x.n
        in_channels == x.in_channels
        reduced == [outcome |-> "ok",
                    features |-> view_sum(features, n, in_channels, out_channels)]
    IN  \* in_channels % 0
        IF out_channels = 0 THEN {[NoUNetOut EXCEPT !.outcome = "ZeroDivisionError"]}
        ELSE IF ~((in_channels % out_channels = 0) /\ (in_channels >= out_channels))
        THEN {[NoUNetOut EXCEPT !.outcome = "AssertionError"]}
        ELSE IF n = 0 THEN {[NoUNetOut EXCEPT !.outcome = "RuntimeError"], reduced}
        ELSE {reduced}

\* the arguments of reduce_channel: a sparse tensor whose features have shape
\* (n, in_channels), and out_channels
UNetInputs ==
    UNION {[n : {shape[1]}, in_channels : {shape[2]},
            features : [Idx(shape[1]) -> [Idx(shape[2]) -> FeatureVals]],
            out_channels : 0 .. MaxChannels] :
           shape \in {s \in (0 .. MaxRows) \X (0 .. MaxChannels) : s[1] * s[2] <= MaxFeatures}}

\* a call of reduce_channel, from its first line to its return or its error
ReduceChannel ==
    /\ unet_out.outcome = "none"
    /\ \E in \in UNetInputs :
          /\ unet_in' = in
          /\ unet_out' \in reduce_channel(in, in.out_channels)
    /\ UNCHANGED <<asg_vars, dec_vars, layer_vars, decoder_vars, cnx_vars>>

\* the caller takes the reduced tensor (or the error)
ReduceChannelReturn ==
    /\ unet_out.outcome # "none"
    /\ unet_in' = NoUNetIn
    /\ unet_out' = NoUNetOut
    /\ UNCHANGED <<asg_vars, dec_vars, layer_vars, decoder_vars, cnx_vars>>

\* reduce_channel is a static method: there is no object state
InitUNet ==
    /\ unet_in = NoUNetIn
    /\ unet_out = NoUNetOut

NextUNet == ReduceChannel \/ ReduceChannelReturn

(***************************************************************************)
(* Properties of FSDSparseUNet.reduce_channel.                             *)
(***************************************************************************)
\* C19: reduce_channel reduces features of C1 channels to out_channels channels: it
\* requires C1 to be a multiple of out_channels (assertion failure otherwise), keeps the
\* number of rows, and output channel j of each row is the sum of the input channels
\* j*k .. j*k + k - 1 with k = C1 / out_channels, so the sum of each row is preserved.
C19_ReduceChannel ==
    unet_out.outcome # "none" =>
        /\ (unet_in.out_channels > 0 /\ unet_in.in_channels % unet_in.out_channels # 0)
              => unet_out.outcome = "AssertionError"
        /\ unet_out.outcome = "ok" =>
              LET k == unet_in.in_channels \div unet_in.out_channels
              IN  /\ k * unet_in.out_channels = unet_in.in_channels
                  /\ DOMAIN unet_out.features = Idx(unet_in.n)
                  /\ \A r \in Idx(unet_in.n) :
                        /\ DOMAIN unet_out.features[r] = Idx(unet_in.out_channels)
                        /\ \A j \in Idx(unet_in.out_channels) :
                              unet_out.features[r][j] =
                                  range_sum(unet_in.features[r], j * k, k)
                        /\ range_sum(unet_out.features[r], 0, unet_in.out_channels)
                              = range_sum(unet_in.features[r], 0, unet_in.in_channels)

\* four channels of one row have been reduced to two, the two sums differing from what
\* the strided pairing would give
C19_Witness ==
    /\ unet_out.outcome = "ok"
    /\ unet_in.n = 1
    /\ unet_in.in_channels = 4
    /\ unet_in.out_channels = 2
    /\ unet_in.features[0][1] # unet_in.features[0][2]
    /\ unet_out.features[0][0] = unet_in.features[0][0] + unet_in.features[0][1]
    /\ unet_out.features[0][1] = unet_in.features[0][2] + unet_in.features[0][3]

(***************************************************************************)
(* Specifications: the assigner, the coder, the decoder layer, the         *)
(* decoder, the backbone and the sparse U-Net are separate objects; each   *)
(* is checked with the others at rest.                                     *)
(***************************************************************************)
\* the assigner as constructed with its defaults, no call running
AssignAtRest ==
    /\ stats_one2one_matching = 0
    /\ layer_indicator = 0
    /\ level_stats = <<>>
    /\ asg_in = NoAsgIn
    /\ asg_out = NoAsgOut

\* one coder, no call running
CoderAtRest ==
    /\ coder = CHOOSE c \in Coders : TRUE
    /\ dec_in = NoDecIn
    /\ dec_out = NoDecOut

\* no decoder layer constructed
LayerAtRest == InitLayer

\* no decoder constructed
DecoderAtRest == InitDecoder

\* no backbone constructed
ConvNeXtAtRest == InitConvNeXt

\* no call of reduce_channel running
UNetAtRest == InitUNet

InitSpecAssign ==
    InitAssign /\ CoderAtRest /\ LayerAtRest /\ DecoderAtRest /\ ConvNeXtAtRest /\ UNetAtRest

SpecAssign == InitSpecAssign /\ [][NextAssign]_vars

InitSpecCoder ==
    InitCoder /\ AssignAtRest /\ LayerAtRest /\ DecoderAtRest /\ ConvNeXtAtRest /\ UNetAtRest

SpecCoder == InitSpecCoder /\ [][NextCoder]_vars

InitSpecLayer ==
    InitLayer /\ AssignAtRest /\ CoderAtRest /\ DecoderAtRest /\ ConvNeXtAtRest /\ UNetAtRest

SpecLayer == InitSpecLayer /\ [][NextLayer]_vars

InitSpecDecoder ==
    InitDecoder /\ AssignAtRest /\ CoderAtRest /\ LayerAtRest /\ ConvNeXtAtRest /\ UNetAtRest

SpecDecoder == InitSpecDecoder /\ [][NextDecoder]_vars

InitSpecConvNeXt ==
    InitConvNeXt /\ AssignAtRest /\ CoderAtRest /\ LayerAtRest /\ DecoderAtRest /\ UNetAtRest

SpecConvNeXt == InitSpecConvNeXt /\ [][NextConvNeXt]_vars

InitSpecUNet ==
    InitUNet /\ AssignAtRest /\ CoderAtRest /\ LayerAtRest /\ DecoderAtRest /\ ConvNeXtAtRest

SpecUNet == InitSpecUNet /\ [][NextUNet]_vars

Init == InitAssign /\ InitCoder /\ InitLayer /\ InitDecoder /\ InitConvNeXt /\ InitUNet

Next == NextAssign \/ NextCoder \/ NextLayer \/ NextDecoder \/ NextConvNeXt \/ NextUNet

Spec == Init /\ [][Next]_vars
=============================================================================
